---- MODULE Spec2Model ----
(***************************************************************************)
(* Model of the GenProjectAI project recommender.                          *)
(*                                                                         *)
(* Two variants of the recommender script exist in the repository:         *)
(*   "console" : src/recomen.py          (stars-descending, Hugging Face)   *)
(*   "web"     : src/unnamed/part_000    (random order, Novita, Streamlit)  *)
(*                                                                         *)
(* Text is modelled as a sequence of one-character strings so that         *)
(* str.strip, str.lower and the pattern search of Series.str.contains are  *)
(* computed character by character.                                        *)
(***************************************************************************)
EXTENDS Integers, Sequences, FiniteSets, TLC

VARIABLES
    pc,               \* position of the script
    variant,          \* "console" or "web"
    possessive,       \* the interpreter's re module knows possessive quantifiers (Python >= 3.11)
    config_ok,        \* config.json is present, well formed and complete
    csv_file,         \* what the CSV file holds: "missing", "corrupt" or a table
    data,             \* the table main() holds
    skill_level,      \* the three preference inputs, as typed
    tech_stack,
    project_type,
    top_n,            \* the top_n argument of recommend_projects
    validated,        \* outcome of validate_user_input
    recommendations,  \* outcome of recommend_projects
    row_i,            \* index of the row display_recommendations is at
    response,         \* outcome of the HTTP request of the running generate_roadmap
    roadmap,          \* outcome of the last generate_roadmap call
    prompt,           \* description line of the prompt of the last generate_roadmap call
    shown,            \* what has been displayed so far, in order
    posts,            \* number of HTTP POST requests issued
    prompts,          \* number of times the preferences were asked for
    selects,          \* number of recommend_projects calls
    button,           \* the running web script run was started by the submit button
    submits,          \* number of times the web form was submitted
    exit_code         \* "running", or the status the process ended with: "0" or "1"

vars == <<pc, variant, possessive, config_ok, csv_file, data, skill_level,
          tech_stack, project_type, top_n, validated, recommendations, row_i,
          response, roadmap, prompt, shown, posts, prompts, selects, button,
                   submits, exit_code>>

(***************************************************************************)
(* Bounds of the model.                                                    *)
(***************************************************************************)
MaxPad == 1      \* whitespace characters around a typed preference
MaxRows == 3     \* rows of a table handed to recommend_projects
MaxFileRows == 2 \* rows of the CSV file of a run of the whole script
MaxStars == 2    \* largest star count of a row
MaxTechLen == 3  \* characters of a tech_stack handed to recommend_projects
MaxTopN == 2     \* largest top_n handed to recommend_projects
MaxSubmits == 2  \* submissions of the web form in one session

(***************************************************************************)
(* Text: str.lower and str.strip                                           *)
(***************************************************************************)
UpperCase == <<"A","B","C","D","E","F","G","H","I","J","K","L","M",
               "N","O","P","Q","R","S","T","U","V","W","X","Y","Z">>

LowerCase == <<"a","b","c","d","e","f","g","h","i","j","k","l","m",
               "n","o","p","q","r","s","t","u","v","w","x","y","z">>

Whitespace == {" ", "\t", "\n"}

Min(S) == CHOOSE x \in S : \A y \in S : x <= y

Max(S) == CHOOSE x \in S : \A y \in S : x >= y

LowerChar(c) ==
    IF \E k \in 1..Len(UpperCase) : UpperCase[k] = c
    THEN LowerCase[CHOOSE k \in 1..Len(UpperCase) : UpperCase[k] = c]
    ELSE c

UpperChar(c) ==
    IF \E k \in 1..Len(LowerCase) : LowerCase[k] = c
    THEN UpperCase[CHOOSE k \in 1..Len(LowerCase) : LowerCase[k] = c]
    ELSE c

\* str.lower()
lower(s) == [k \in 1..Len(s) |-> LowerChar(s[k])]

\* str.upper() and str.capitalize(), used to build typed inputs
upper(s) == [k \in 1..Len(s) |-> UpperChar(s[k])]

capitalize(s) == [k \in 1..Len(s) |-> IF k = 1 THEN UpperChar(s[k]) ELSE LowerChar(s[k])]

\* str.strip(): drops leading and trailing whitespace
strip(s) ==
    LET keep == {k \in 1..Len(s) : s[k] \notin Whitespace}
    IN  IF keep = {} THEN <<>> ELSE SubSeq(s, Min(keep), Max(keep))

(***************************************************************************)
(* validate_user_input                                                     *)
(***************************************************************************)
beginner == <<"b","e","g","i","n","n","e","r">>

intermediate == <<"i","n","t","e","r","m","e","d","i","a","t","e">>

advanced == <<"a","d","v","a","n","c","e","d">>

VALID_SKILL_LEVELS == {beginner, intermediate, advanced}

NoValue == <<>>

Returned(v) == [raised |-> "none", value |-> v]

Raised(e) == [raised |-> e, value |-> NoValue]

NotCalled == [raised |-> "not called", value |-> NoValue]

validate_user_input_NoProjectTypeCheck(skill, tech, ptype) ==
    LET s == lower(strip(skill))
        t == lower(strip(tech))
        p == lower(strip(ptype))
    IN  IF s = <<>> \/ s \notin VALID_SKILL_LEVELS THEN Raised("ValueError")
        ELSE IF t = <<>> THEN Raised("ValueError")
        ELSE Returned(<<s, t, p>>)

validate_user_input(skill, tech, ptype) ==
    LET s == lower(strip(skill))
        t == lower(strip(tech))
        p == lower(strip(ptype))
    IN  IF s = <<>> \/ s \notin VALID_SKILL_LEVELS THEN Raised("ValueError")
        ELSE IF t = <<>> THEN Raised("ValueError")
        ELSE IF p = <<>> THEN Raised("ValueError")
        ELSE Returned(<<s, t, p>>)

(***************************************************************************)
(* Tables.  A table is a sequence of rows; a row is addressed by its       *)
(* position, which stands for its index label.  A cell of a text column    *)
(* is either absent (NaN) or holds text.                                   *)
(***************************************************************************)
NaN == [absent |-> TRUE, text |-> <<>>]

Text(s) == [absent |-> FALSE, text |-> s]

EmptyTable == <<>>

\* DataFrame.empty
empty(table) == Len(table) = 0

\* The text an f-string renders for a cell: a NaN cell is a float and prints as nan
format(cell) == IF cell.absent THEN <<"n","a","n">> ELSE cell.text

(***************************************************************************)
(* Series.str.contains(pat, na=False).  regex=True is the default, so pat  *)
(* is compiled by re.compile and searched with re.search.  The fragment    *)
(* of the pattern language modelled: literal characters, "." (any          *)
(* character but a newline) and the quantifier "+".  A "+" directly after  *)
(* a "+" is a possessive quantifier where the re module knows them and a   *)
(* "multiple repeat" error where it does not.                              *)
(***************************************************************************)
Item(any, ch) == [any |-> any, ch |-> ch, q |-> "one"]

CompileError == [error |-> TRUE, items |-> <<>>]

RECURSIVE CompileFrom(_, _, _, _)
CompileFrom(pat, k, items, poss) ==
    IF k > Len(pat) THEN [error |-> FALSE, items |-> items]
    ELSE IF pat[k] = "+" THEN
        IF items = <<>> THEN CompileError                    \* nothing to repeat
        ELSE IF items[Len(items)].q = "one"
             THEN CompileFrom(pat, k + 1, [items EXCEPT ![Len(items)].q = "plus"], poss)
        ELSE IF items[Len(items)].q = "plus" /\ poss
             THEN CompileFrom(pat, k + 1, [items EXCEPT ![Len(items)].q = "poss"], poss)
        ELSE CompileError                                    \* multiple repeat
    ELSE IF pat[k] = "."
         THEN CompileFrom(pat, k + 1, Append(items, Item(TRUE, ".")), poss)
    ELSE CompileFrom(pat, k + 1, Append(items, Item(FALSE, pat[k])), poss)

\* re.compile(pat)
compile(pat, poss) == CompileFrom(pat, 1, <<>>, poss)

Accepts(item, c) == IF item.any THEN c # "\n" ELSE c = item.ch

\* length of the longest run of characters from pos on that item accepts
RECURSIVE Run(_, _, _)
Run(item, text, pos) ==
    IF pos <= Len(text) /\ Accepts(item, text[pos])
    THEN 1 + Run(item, text, pos + 1)
    ELSE 0

\* items[i..] match text from pos on
RECURSIVE MatchHere(_, _, _, _)
MatchHere(items, i, text, pos) ==
    IF i > Len(items) THEN TRUE
    ELSE IF items[i].q = "one"
         THEN /\ pos <= Len(text)
              /\ Accepts(items[i], text[pos])
              /\ MatchHere(items, i + 1, text, pos + 1)
    ELSE IF items[i].q = "plus"
         THEN \E n \in 1..Run(items[i], text, pos) : MatchHere(items, i + 1, text, pos + n)
    ELSE /\ Run(items[i], text, pos) >= 1
         /\ MatchHere(items, i + 1, text, pos + Run(items[i], text, pos))

\* re.search(pattern, text) is not None
search(items, text) == \E pos \in 1..(Len(text) + 1) : MatchHere(items, 1, text, pos)

\* one element of Series.str.lower().str.contains(pat, na=False)
str_contains(cell, items) ==
    IF cell.absent THEN FALSE ELSE search(items, lower(cell.text))

(***************************************************************************)
(* recommend_projects                                                      *)
(***************************************************************************)
\* positions of the rows the mask keeps, in table order: data[mask]
Masked(table, items) ==
    LET keep == {k \in 1..Len(table) : str_contains(table[k].Language, items)}
        RECURSIVE InOrder(_)
        InOrder(k) == IF k > Len(table) THEN <<>>
                      ELSE (IF k \in keep THEN <<k>> ELSE <<>>) \o InOrder(k + 1)
    IN  InOrder(1)

\* DataFrame.head(n): the first n rows; all but the last -n rows when n < 0
head(rows, n) ==
    IF n >= 0 THEN SubSeq(rows, 1, IF n < Len(rows) THEN n ELSE Len(rows))
    ELSE SubSeq(rows, 1, Len(rows) + n)

Remove(rows, k) == SubSeq(rows, 1, k - 1) \o SubSeq(rows, k + 1, Len(rows))

\* DataFrame.nlargest(n, 'Stars'), keep='first': the n rows with the largest
\* Stars in descending order, the earlier row first among equal Stars
RECURSIVE nlargest(_, _, _)
nlargest(table, rows, n) ==
    IF n <= 0 \/ rows = <<>> THEN <<>>
    ELSE LET best == Min({k \in 1..Len(rows) :
                             \A j \in 1..Len(rows) : table[rows[j]].Stars <= table[rows[k]].Stars})
         IN  <<rows[best]>> \o nlargest(table, Remove(rows, best), n - 1)

\* all orders of rows: DataFrame.sample(frac=1, random_state=None)
RECURSIVE Shuffles(_)
Shuffles(rows) ==
    IF rows = <<>> THEN {<<>>}
    ELSE UNION {{<<rows[k]>> \o rest : rest \in Shuffles(Remove(rows, k))} : k \in 1..Len(rows)}

\* the .str accessor refuses a column read_csv inferred as float64 (every cell NaN)
StrAccessorFails(table) == \A k \in 1..Len(table) : table[k].Language.absent

\* recommend_projects of src/recomen.py
recommend_projects_stars(table, tech, n, poss) ==
    IF empty(table) THEN Returned(<<>>)
    ELSE IF StrAccessorFails(table) THEN Raised("AttributeError")
    ELSE IF compile(tech, poss).error THEN Raised("re.error")
    ELSE Returned(nlargest(table, Masked(table, compile(tech, poss).items), n))

\* recommend_projects of the web variant: the set of results it may return
recommend_projects_random(table, tech, n, poss) ==
    IF empty(table) THEN {Returned(<<>>)}
    ELSE IF StrAccessorFails(table) THEN {Raised("AttributeError")}
    ELSE IF compile(tech, poss).error THEN {Raised("re.error")}
    ELSE LET filtered == Masked(table, compile(tech, poss).items)
         IN  IF filtered = <<>> THEN {Returned(<<>>)}
             ELSE {Returned(head(s, IF n < Len(s) THEN n ELSE Len(s))) : s \in Shuffles(filtered)}

(***************************************************************************)
(* JSON payloads and the Python expressions that take them apart           *)
(***************************************************************************)
JNull == [t |-> "null", s |-> <<>>, items |-> <<>>, keys |-> <<>>]

JStr(s) == [t |-> "str", s |-> s, items |-> <<>>, keys |-> <<>>]

JList(items) == [t |-> "list", s |-> <<>>, items |-> items, keys |-> <<>>]

\* a JSON object: keys[k] maps to items[k]
JDict(keys, vals) == [t |-> "dict", s |-> <<>>, items |-> vals, keys |-> keys]

\* bool(v)
truthy(v) ==
    CASE v.t = "null" -> FALSE
      [] v.t = "str"  -> v.s # <<>>
      [] OTHER        -> v.items # <<>>

\* v[0]
getitem0(v) ==
    CASE v.t = "list" -> IF v.items = <<>> THEN Raised("IndexError") ELSE Returned(v.items[1])
      [] v.t = "dict" -> Raised("KeyError")
      [] v.t = "str"  -> IF v.s = <<>> THEN Raised("IndexError") ELSE Returned(JStr(<<v.s[1]>>))
      [] OTHER        -> Raised("TypeError")

\* v.get(key, default)
get(v, key, default) ==
    IF v.t # "dict" THEN Raised("AttributeError")
    ELSE IF \E k \in 1..Len(v.keys) : v.keys[k] = key
         THEN Returned(v.items[CHOOSE k \in 1..Len(v.keys) : v.keys[k] = key])
    ELSE Returned(default)

\* v.strip()
strip_method(v) ==
    IF v.t # "str" THEN Raised("AttributeError") ELSE Returned(JStr(strip(v.s)))

(***************************************************************************)
(* generate_roadmap                                                        *)
(***************************************************************************)
NoRoadmap == <<"N","o"," ","r","o","a","d","m","a","p"," ","g","e","n","e","r","a","t","e","d",".">>

ErrorPrefix == <<"E","r","r","o","r",":"," ","U","n","a","b","l","e"," ","t","o"," ","g","e","n","e","r","a","t","e"," ","r","o","a","d","m","a","p"," ","-"," ">>

\* str(e) of the exception of a failed request
Detail(kind) ==
    CASE kind = "ConnectionError" -> <<"r","e","f","u","s","e","d">>
      [] kind = "Timeout"         -> <<"t","i","m","e","d"," ","o","u","t">>
      [] OTHER                    -> <<"5","0","3">>

\* the texts the prompt embeds, in order
Prompt(project_name, description, tech, skill) ==
    <<project_name, format(description), tech, skill>>

\* outcomes of requests.post: the exception it or raise_for_status raises, or a
\* success status with a JSON body
Failed(kind) == [kind |-> kind, body |-> JNull]

Body(v) == [kind |-> "ok", body |-> v]

NoResponse == [kind |-> "none", body |-> JNull]

RequestFailures == {"ConnectionError", "Timeout", "HTTPError"}

\* result[0].get("generated_text", "No roadmap generated.") if result else "No roadmap generated."
extract_hf(result) ==
    IF ~truthy(result) THEN Returned(JStr(NoRoadmap))
    ELSE IF getitem0(result).raised # "none" THEN getitem0(result)
    ELSE get(getitem0(result).value, "generated_text", JStr(NoRoadmap))

\* result.get("choices", [{}])[0].get("text", "No roadmap generated.").strip()
extract_novita(result) ==
    LET choices == get(result, "choices", JList(<<JDict(<<>>, <<>>)>>))
    IN  IF choices.raised # "none" THEN choices
        ELSE IF getitem0(choices.value).raised # "none" THEN getitem0(choices.value)
        ELSE LET text == get(getitem0(choices.value).value, "text", JStr(NoRoadmap))
             IN  IF text.raised # "none" THEN text ELSE strip_method(text.value)

\* the try block of generate_roadmap and its except requests.RequestException
generate_roadmap(v, resp) ==
    IF resp.kind \in RequestFailures THEN Returned(JStr(ErrorPrefix \o Detail(resp.kind)))
    ELSE IF v = "console" THEN extract_hf(resp.body)
    ELSE extract_novita(resp.body)

\* payloads of a success response
Steps == <<"1",".","r","e","a","d">>

Payloads ==
    { JList(<<>>),
      JDict(<<>>, <<>>),
      JNull,
      JList(<<JDict(<<>>, <<>>)>>),
      JList(<<JDict(<<"generated_text">>, <<JStr(Steps)>>)>>),
      JList(<<JDict(<<"generated_text">>, <<JNull>>)>>),
      JList(<<JStr(Steps)>>),
      JDict(<<"error">>, <<JStr(<<"l","o","a","d","i","n","g">>)>>),
      JDict(<<"choices">>, <<JList(<<>>)>>),
      JDict(<<"choices">>, <<JNull>>),
      JDict(<<"choices">>, <<JList(<<JDict(<<>>, <<>>)>>)>>),
      JDict(<<"choices">>, <<JList(<<JDict(<<"text">>, <<JNull>>)>>)>>),
      JDict(<<"choices">>, <<JList(<<JDict(<<"text">>, <<JStr(<<" ">> \o Steps \o <<"\n">>)>>)>>)>>) }

Responses == {Failed(k) : k \in RequestFailures} \cup {Body(v) : v \in Payloads}

(***************************************************************************)
(* Inputs                                                                  *)
(***************************************************************************)
\* all sequences over S of length at most n
RECURSIVE SeqsUpTo(_, _)
SeqsUpTo(S, n) ==
    IF n = 0 THEN {<<>>}
    ELSE LET shorter == SeqsUpTo(S, n - 1)
         IN  shorter \cup {Append(s, x) : s \in {t \in shorter : Len(t) = n - 1}, x \in S}

Cases(w) == {w, upper(w), capitalize(w)}

\* typed skill levels: a word in some case, padded with whitespace
SkillWords == {beginner, intermediate, advanced,
               <<"e","x","p","e","r","t">>,
               <<"b","e","g","i","n"," ","n","e","r">>,
               <<>>}

SkillInputs ==
    {l \o c \o r : l \in SeqsUpTo({" ", "\t"}, MaxPad),
                   c \in UNION {Cases(w) : w \in SkillWords},
                   r \in SeqsUpTo({" "}, MaxPad)}

TechInputs ==
    {l \o c : l \in SeqsUpTo({" ", "\t"}, MaxPad),
              c \in UNION {Cases(w) : w \in {<<"p","y","t","h","o","n">>, <<"c","+","+">>, <<>>}}}

TypeInputs ==
    {c \o r : c \in {<<"m","l">>, <<"W","e","b"," ","D","e","v">>, <<>>},
              r \in SeqsUpTo({" "}, MaxPad)}

\* languages of the rows of a table
Languages == {Text(<<"C">>), Text(<<"C","+","+">>), Text(<<"G","o">>), NaN}

Descriptions == {Text(<<"d">>), NaN}

SelectRows ==
    [Name : {<<"n">>}, Description : {Text(<<"d">>)}, Stars : 1..MaxStars,
     Language : Languages, URL : {<<"u">>}]

\* tech_stack arguments of recommend_projects
TechStacks == SeqsUpTo({"c", "+", "."}, MaxTechLen)

DefaultTopN == 5

(***************************************************************************)
(* SpecValidate: validate_user_input applied to typed inputs               *)
(***************************************************************************)
Unused ==
    /\ variant = "console"
    /\ possessive = TRUE
    /\ config_ok = TRUE
    /\ csv_file = "missing"
    /\ data = EmptyTable
    /\ top_n = DefaultTopN
    /\ recommendations = NotCalled
    /\ row_i = 0
    /\ response = NoResponse
    /\ roadmap = NotCalled
    /\ prompt = <<>>
    /\ shown = <<>>
    /\ posts = 0
    /\ prompts = 0
    /\ selects = 0
    /\ button = FALSE
    /\ submits = 0
    /\ exit_code = "running"

InitValidate ==
    /\ pc = "call"
    /\ skill_level \in SkillInputs
    /\ tech_stack \in TechInputs
    /\ project_type \in TypeInputs
    /\ validated = NotCalled
    /\ Unused

Validate ==
    /\ pc = "call"
    /\ validated' = validate_user_input(skill_level, tech_stack, project_type)
    /\ pc' = "returned"
    /\ UNCHANGED <<variant, possessive, config_ok, csv_file, data, skill_level,
                   tech_stack, project_type, top_n, recommendations, row_i,
                   response, roadmap, prompt, shown, posts, prompts, selects, button,
                   submits, exit_code>>

NextValidate == Validate

SpecValidate == InitValidate /\ [][NextValidate]_vars

(***************************************************************************)
(* SpecSelect: recommend_projects applied to tables                        *)
(***************************************************************************)
InitSelect ==
    /\ pc = "call"
    /\ variant \in {"console", "web"}
    /\ possessive \in BOOLEAN
    /\ data \in SeqsUpTo(SelectRows, MaxRows)
    /\ tech_stack \in TechStacks
    /\ top_n \in 0..MaxTopN
    /\ recommendations = NotCalled
    /\ config_ok = TRUE
    /\ csv_file = "table"
    /\ skill_level = <<>>
    /\ project_type = <<>>
    /\ validated = NotCalled
    /\ row_i = 0
    /\ response = NoResponse
    /\ roadmap = NotCalled
    /\ prompt = <<>>
    /\ shown = <<>>
    /\ posts = 0
    /\ prompts = 0
    /\ selects = 0
    /\ button = FALSE
    /\ submits = 0
    /\ exit_code = "running"

SelectStars ==
    /\ pc = "call"
    /\ variant = "console"
    /\ recommendations' = recommend_projects_stars(data, tech_stack, top_n, possessive)
    /\ pc' = "returned"
    /\ UNCHANGED <<variant, possessive, config_ok, csv_file, data, skill_level,
                   tech_stack, project_type, top_n, validated, row_i,
                   response, roadmap, prompt, shown, posts, prompts, selects, button,
                   submits, exit_code>>

SelectRandom ==
    /\ pc = "call"
    /\ variant = "web"
    /\ recommendations' \in recommend_projects_random(data, tech_stack, top_n, possessive)
    /\ pc' = "returned"
    /\ UNCHANGED <<variant, possessive, config_ok, csv_file, data, skill_level,
                   tech_stack, project_type, top_n, validated, row_i,
                   response, roadmap, prompt, shown, posts, prompts, selects, button,
                   submits, exit_code>>

NextSelect == SelectStars \/ SelectRandom

SpecSelect == InitSelect /\ [][NextSelect]_vars

(***************************************************************************)
(* SpecRoadmap: generate_roadmap called for one project                    *)
(***************************************************************************)
RoadmapRows ==
    [Name : {<<"n">>}, Description : Descriptions \cup {Text(<<>>)}, Stars : {1},
     Language : {Text(<<"C">>)}, URL : {<<"u">>}]

InitRoadmap ==
    /\ pc = "call"
    /\ variant \in {"console", "web"}
    /\ possessive = TRUE
    /\ data \in {<<r>> : r \in RoadmapRows}
    /\ tech_stack \in {<<"c">>, <<"g","o">>}
    /\ skill_level \in VALID_SKILL_LEVELS
    /\ project_type = <<"m","l">>
    /\ response = NoResponse
    /\ roadmap = NotCalled
    /\ prompt = <<>>
    /\ posts = 0
    /\ config_ok = TRUE
    /\ csv_file = "table"
    /\ top_n = DefaultTopN
    /\ validated = NotCalled
    /\ recommendations = NotCalled
    /\ row_i = 1
    /\ shown = <<>>
    /\ prompts = 0
    /\ selects = 0
    /\ button = FALSE
    /\ submits = 0
    /\ exit_code = "running"

\* one call of generate_roadmap: the prompt, the single requests.post, the result
GenerateRoadmap ==
    /\ pc = "call"
    /\ \E resp \in Responses :
          /\ response' = resp
          /\ roadmap' = generate_roadmap(variant, resp)
    /\ prompt' = Prompt(data[row_i].Name, data[row_i].Description, tech_stack, skill_level)
    /\ posts' = posts + 1
    /\ pc' = "returned"
    /\ UNCHANGED <<variant, possessive, config_ok, csv_file, data, skill_level, tech_stack,
                   project_type, top_n, validated, recommendations, row_i, shown,
                   prompts, selects, button, submits, exit_code>>

NextRoadmap == GenerateRoadmap

SpecRoadmap == InitRoadmap /\ [][NextRoadmap]_vars

(***************************************************************************)
(* Spec: the script from configuration loading to the displayed cards.     *)
(* The web variant runs the whole script again each time the form is       *)
(* submitted; what a run displays and counts starts afresh with the run.   *)
(***************************************************************************)
MainRows ==
    [Name : {<<"n">>}, Description : Descriptions, Stars : {1, 2},
     Language : {Text(<<"C","+","+">>), Text(<<"G","o">>)}, URL : {<<"u">>}]

Missing == [state |-> "missing", table |-> EmptyTable]

Corrupt == [state |-> "corrupt", table |-> EmptyTable]

File(table) == [state |-> "ok", table |-> table]

CsvFiles == {Missing, Corrupt} \cup {File(t) : t \in SeqsUpTo(MainRows, MaxFileRows)}

\* what the user types at the console prompts
ConsoleSkills == {<<"B","e","g","i","n","n","e","r"," ">>, <<"e","x","p","e","r","t">>}

\* what the selectbox of the web form offers
WebSkills == {beginner}

MainTechs == {<<" ","G","o">>, <<"c","+","+">>, <<" ">>}

MainTypes == {<<"m","l">>}

\* request outcomes of the runs of the whole script
MainResponses ==
    { Failed("Timeout"),
      Body(JList(<<>>)),
      Body(JList(<<JDict(<<"generated_text">>, <<JStr(Steps)>>)>>)),
      Body(JDict(<<"choices">>, <<JList(<<JDict(<<"text">>, <<JStr(Steps)>>)>>)>>)) }

\* load_project_data: every exception of the try block is caught
load_project_data(file) ==
    IF file.state = "missing" THEN Returned(EmptyTable)      \* FileNotFoundError, caught
    ELSE IF file.state = "corrupt" THEN Returned(EmptyTable) \* parser error, caught
    ELSE Returned(file.table)

\* displayed items
Notice(kind) == [kind |-> kind, row |-> 0, texts |-> <<>>, stars |-> 0, value |-> JNull]

Project(table, k) ==
    [kind |-> "project", row |-> k,
     texts |-> <<table[k].Name, format(table[k].Description), table[k].URL>>,
     stars |-> table[k].Stars, value |-> JNull]

RoadmapText(k, v) == [kind |-> "roadmap", row |-> k, texts |-> <<>>, stars |-> 0, value |-> v]

InitMain ==
    /\ pc = "config"
    /\ variant \in {"console", "web"}
    /\ possessive \in BOOLEAN
    /\ config_ok \in BOOLEAN
    /\ csv_file \in CsvFiles
    /\ data = EmptyTable
    /\ skill_level = <<>>
    /\ tech_stack = <<>>
    /\ project_type = <<>>
    /\ top_n = DefaultTopN
    /\ validated = NotCalled
    /\ recommendations = NotCalled
    /\ row_i = 0
    /\ response = NoResponse
    /\ roadmap = NotCalled
    /\ prompt = <<>>
    /\ shown = <<>>
    /\ posts = 0
    /\ prompts = 0
    /\ selects = 0
    /\ button = FALSE
    /\ submits = 0
    /\ exit_code = "running"

\* the end of main(): the console process ends with status 0, the web page waits
Finish ==
    IF variant = "console" THEN pc' = "done" /\ exit_code' = "0"
    ELSE pc' = "idle" /\ exit_code' = exit_code

\* an exception nothing catches: the console process dies with a traceback
\* (status 1); the web run stops and the page shows the exception
Uncaught ==
    IF variant = "console" THEN pc' = "exited" /\ exit_code' = "1"
    ELSE pc' = "idle" /\ exit_code' = exit_code

\* module level: config.json is read; sys.exit(1) when it is missing or malformed
LoadConfig ==
    /\ pc = "config"
    /\ IF config_ok THEN pc' = "load" /\ exit_code' = exit_code
       ELSE pc' = "exited" /\ exit_code' = "1"
    /\ UNCHANGED <<variant, possessive, config_ok, csv_file, data, skill_level, tech_stack,
                   project_type, top_n, validated, recommendations, row_i, response,
                   roadmap, prompt, shown, posts, prompts, selects, button, submits>>

\* main(): load_project_data, the empty check and, in the web variant, the form
LoadData_NoEmptyCheck ==
    /\ pc = "load"
    /\ LET loaded == load_project_data(csv_file)
       IN  IF loaded.raised # "none"
           THEN data' = data /\ shown' = shown /\ prompts' = prompts /\ Uncaught
           ELSE /\ data' = loaded.value
                /\ shown' = shown
                /\ exit_code' = exit_code
                /\ IF variant = "console" THEN pc' = "prefs" /\ prompts' = prompts
                   ELSE /\ prompts' = prompts + 1
                        /\ pc' = IF button THEN "validate" ELSE "idle"
    /\ UNCHANGED <<variant, possessive, config_ok, csv_file, skill_level, tech_stack,
                   project_type, top_n, validated, recommendations, row_i, response,
                   roadmap, prompt, posts, selects, button, submits>>

LoadData ==
    /\ pc = "load"
    /\ LET loaded == load_project_data(csv_file)
       IN  IF loaded.raised # "none"
           THEN data' = data /\ shown' = shown /\ prompts' = prompts /\ Uncaught
           ELSE /\ data' = loaded.value
                /\ IF empty(loaded.value)
                   THEN shown' = Append(shown, Notice("failed to load")) /\ prompts' = prompts /\ Finish
                   ELSE /\ shown' = shown
                        /\ exit_code' = exit_code
                        /\ IF variant = "console" THEN pc' = "prefs" /\ prompts' = prompts
                           ELSE /\ prompts' = prompts + 1
                                /\ pc' = IF button THEN "validate" ELSE "idle"
    /\ UNCHANGED <<variant, possessive, config_ok, csv_file, skill_level, tech_stack,
                   project_type, top_n, validated, recommendations, row_i, response,
                   roadmap, prompt, posts, selects, button, submits>>

\* get_user_preferences of the console variant: three input() calls, then
\* validate_user_input; a ValueError is logged and the process exits with status 1
GetUserPreferences ==
    /\ pc = "prefs"
    /\ variant = "console"
    /\ \E s \in ConsoleSkills, t \in MainTechs, p \in MainTypes :
          /\ skill_level' = s
          /\ tech_stack' = t
          /\ project_type' = p
          /\ validated' = validate_user_input(s, t, p)
    /\ prompts' = prompts + 1
    /\ IF validated'.raised = "ValueError" THEN pc' = "exited" /\ exit_code' = "1"
       ELSE pc' = "recommend" /\ exit_code' = exit_code
    /\ UNCHANGED <<variant, possessive, config_ok, csv_file, data, top_n, recommendations,
                   row_i, response, roadmap, prompt, shown, posts, selects, button, submits>>

\* the user fills the web form in and presses "Get Recommendations": the script
\* runs again from its first line
Submit ==
    /\ pc = "idle"
    /\ variant = "web"
    /\ submits < MaxSubmits
    /\ \E s \in WebSkills, t \in MainTechs, p \in MainTypes :
          /\ skill_level' = s
          /\ tech_stack' = t
          /\ project_type' = p
    /\ submits' = submits + 1
    /\ button' = TRUE
    /\ pc' = "config"
    /\ data' = EmptyTable
    /\ validated' = NotCalled
    /\ recommendations' = NotCalled
    /\ row_i' = 0
    /\ response' = NoResponse
    /\ roadmap' = NotCalled
    /\ prompt' = <<>>
    /\ shown' = <<>>
    /\ posts' = 0
    /\ prompts' = 0
    /\ selects' = 0
    /\ UNCHANGED <<variant, possessive, config_ok, csv_file, top_n, exit_code>>

\* main() of the web variant: validate_user_input inside try / except ValueError
ValidateForm ==
    /\ pc = "validate"
    /\ variant = "web"
    /\ validated' = validate_user_input(skill_level, tech_stack, project_type)
    /\ IF validated'.raised = "ValueError"
       THEN shown' = Append(shown, Notice("invalid input")) /\ pc' = "idle"
       ELSE shown' = shown /\ pc' = "recommend"
    /\ UNCHANGED <<variant, possessive, config_ok, csv_file, data, skill_level, tech_stack,
                   project_type, top_n, recommendations, row_i, response, roadmap,
                   prompt, posts, prompts, selects, button, submits, exit_code>>

\* main(): recommend_projects(data, tech_stack), then the first lines of
\* display_recommendations
Recommend ==
    /\ pc = "recommend"
    /\ recommendations' \in
          IF variant = "console"
          THEN {recommend_projects_stars(data, validated.value[2], top_n, possessive)}
          ELSE recommend_projects_random(data, validated.value[2], top_n, possessive)
    /\ selects' = selects + 1
    /\ IF recommendations'.raised # "none"
       THEN /\ shown' = IF variant = "web" THEN Append(shown, Notice("exception")) ELSE shown
            /\ row_i' = row_i
            /\ Uncaught
       ELSE IF recommendations'.value = <<>>
            THEN shown' = Append(shown, Notice("no recommendations")) /\ row_i' = row_i /\ Finish
       ELSE /\ shown' = Append(shown, Notice("header"))
            /\ row_i' = 1
            /\ pc' = "display"
            /\ exit_code' = exit_code
    /\ UNCHANGED <<variant, possessive, config_ok, csv_file, data, skill_level, tech_stack,
                   project_type, top_n, validated, response, roadmap, prompt, posts,
                   prompts, button, submits>>

\* one pass of the loop of display_recommendations: the project's fields, then
\* generate_roadmap and its text
DisplayRow ==
    /\ pc = "display"
    /\ row_i <= Len(recommendations.value)
    /\ LET k == recommendations.value[row_i]
       IN  /\ \E resp \in MainResponses :
                 /\ response' = resp
                 /\ roadmap' = generate_roadmap(variant, resp)
           /\ prompt' = Prompt(data[k].Name, data[k].Description,
                               validated.value[2], validated.value[1])
           /\ posts' = posts + 1
           /\ IF roadmap'.raised # "none"
              THEN /\ shown' = shown \o <<Project(data, k)>> \o
                                  (IF variant = "web"
                                   THEN <<Notice("exception")>>
                                   ELSE <<>>)
                   /\ row_i' = row_i
                   /\ Uncaught
              ELSE /\ shown' = shown \o <<Project(data, k), RoadmapText(k, roadmap'.value)>>
                   /\ row_i' = row_i + 1
                   /\ IF row_i = Len(recommendations.value) THEN Finish
                      ELSE pc' = pc /\ exit_code' = exit_code
    /\ UNCHANGED <<variant, possessive, config_ok, csv_file, data, skill_level, tech_stack,
                   project_type, top_n, validated, recommendations, prompts, selects,
                   button, submits>>

Next ==
    \/ LoadConfig
    \/ LoadData
    \/ GetUserPreferences
    \/ Submit
    \/ ValidateForm
    \/ Recommend
    \/ DisplayRow

Spec == InitMain /\ [][Next]_vars

(***************************************************************************)
(* Properties                                                              *)
(***************************************************************************)
\* sub occurs in text as a contiguous run of characters
IsSubstring(sub, text) ==
    \E pos \in 1..(Len(text) - Len(sub) + 1) : SubSeq(text, pos, pos + Len(sub) - 1) = sub

\* rows of the table whose Language, lower-cased, contains tech as a substring
Matching(table, tech) ==
    {k \in 1..Len(table) :
        /\ ~table[k].Language.absent
        /\ IsSubstring(tech, lower(table[k].Language.text))}

Elements(rows) == {rows[k] : k \in 1..Len(rows)}

\* C1: for every non-empty table and every tech_stack, recommend_projects returns
\* a result without failing, and every returned row is a row of the table whose
\* Language, lower-cased, contains tech_stack as a substring; a row whose Language
\* is absent is never returned.
C1_SelectReturnsSubstringMatches ==
    (pc = "returned" /\ ~empty(data)) =>
        /\ recommendations.raised = "none"
        /\ Elements(recommendations.value) \subseteq Matching(data, tech_stack)

\* C2: recommend_projects never returns more than top_n rows, and when at least
\* one row matches it returns exactly min(top_n, matching_count) rows, in the
\* star-descending and in the random variant.
C2_SelectReturnsMinTopNMatching ==
    pc = "returned" =>
        LET count == Cardinality(Matching(data, tech_stack))
        IN  /\ recommendations.raised = "none" => Len(recommendations.value) <= top_n
            /\ count > 0 =>
                  /\ recommendations.raised = "none"
                  /\ Len(recommendations.value) = IF top_n < count THEN top_n ELSE count

\* C3: in the star-descending variant the result is the top_n matching rows with
\* the highest star counts, a row with more stars before a row with fewer, rows
\* with equal stars in their order in the table.
C3_StarsDescendingTopN ==
    (pc = "returned" /\ variant = "console") =>
        LET rows == recommendations.value
            matching == Matching(data, tech_stack)
            count == Cardinality(matching)
        IN  /\ recommendations.raised = "none"
            /\ Elements(rows) \subseteq matching
            /\ Len(rows) = IF top_n < count THEN top_n ELSE count
            /\ \A i, j \in 1..Len(rows) :
                  i < j => \/ data[rows[i]].Stars > data[rows[j]].Stars
                           \/ /\ data[rows[i]].Stars = data[rows[j]].Stars
                              /\ rows[i] < rows[j]
            /\ \A m \in matching \ Elements(rows) : \A e \in Elements(rows) :
                  data[e].Stars >= data[m].Stars

\* out is in without its leading and trailing whitespace
IsTrimOf(out, in) ==
    \E a \in 0..(Len(in) - Len(out)) :
        /\ \A k \in 1..a : in[k] \in Whitespace
        /\ \A k \in (a + Len(out) + 1)..Len(in) : in[k] \in Whitespace
        /\ \A k \in 1..Len(out) : out[k] = in[a + k]
        /\ out # <<>> => (out[1] \notin Whitespace /\ out[Len(out)] \notin Whitespace)

\* out is in with every upper-case letter replaced by its lower-case letter
IsLowerOf(out, in) ==
    /\ Len(out) = Len(in)
    /\ \A k \in 1..Len(in) :
          \/ \E l \in 1..Len(UpperCase) : in[k] = UpperCase[l] /\ out[k] = LowerCase[l]
          \/ (\A l \in 1..Len(UpperCase) : in[k] # UpperCase[l]) /\ out[k] = in[k]

\* out is in trimmed and lower-cased
IsNormalOf(out, in) ==
    \E a \in 1..(Len(in) - Len(out) + 1) :
        /\ IsTrimOf(SubSeq(in, a, a + Len(out) - 1), in)
        /\ IsLowerOf(out, SubSeq(in, a, a + Len(out) - 1))

\* C4: validate_user_input succeeds iff skill_level, trimmed and lower-cased, is
\* one of beginner/intermediate/advanced and tech_stack and project_type are not
\* empty after trimming; on success it returns the three inputs trimmed and
\* lower-cased, otherwise it fails with the invalid-preference error and returns
\* nothing.
C4_ValidateAcceptsAndNormalizes ==
    pc = "returned" =>
        LET ok == /\ \E w \in VALID_SKILL_LEVELS : IsNormalOf(w, skill_level)
                  /\ ~IsTrimOf(<<>>, tech_stack)
                  /\ ~IsTrimOf(<<>>, project_type)
        IN  /\ ok => /\ validated.raised = "none"
                     /\ Len(validated.value) = 3
                     /\ IsNormalOf(validated.value[1], skill_level)
                     /\ IsNormalOf(validated.value[2], tech_stack)
                     /\ IsNormalOf(validated.value[3], project_type)
            /\ ~ok => validated = Raised("ValueError")

\* ("Beginner ", " Python", "ml") was validated to ("beginner", "python", "ml")
C4_Witness ==
    /\ pc = "returned"
    /\ skill_level = <<"B","e","g","i","n","n","e","r"," ">>
    /\ tech_stack = <<" ","P","y","t","h","o","n">>
    /\ project_type = <<"m","l">>
    /\ validated = Returned(<<beginner, <<"p","y","t","h","o","n">>, <<"m","l">>>>)

HasPrefix(text, prefix) ==
    Len(text) >= Len(prefix) /\ SubSeq(text, 1, Len(prefix)) = prefix

\* C5: generate_roadmap never raises to its caller: for every outcome of the
\* request it returns a string, on a transport or non-success-status failure a
\* string that begins with "Error: Unable to generate roadmap - ", and it issues
\* one request, no retry.
C5_GenerateRoadmapNeverRaises ==
    pc = "returned" =>
        /\ roadmap.raised = "none"
        /\ roadmap.value.t = "str"
        /\ response.kind \in RequestFailures => HasPrefix(roadmap.value.s, ErrorPrefix)
        /\ posts = 1

\* the payload has the shape the variant's provider documents: a first candidate
\* with a text
WellFormed(v, resp) ==
    /\ IF v = "console"
       THEN /\ resp.body.t = "list"
            /\ resp.body.items # <<>>
            /\ resp.body.items[1].t = "dict"
            /\ \E k \in 1..Len(resp.body.items[1].keys) :
                  /\ resp.body.items[1].keys[k] = "generated_text"
                  /\ resp.body.items[1].items[k].t = "str"
       ELSE /\ resp.body.t = "dict"
            /\ \E c \in 1..Len(resp.body.keys) :
                  /\ resp.body.keys[c] = "choices"
                  /\ resp.body.items[c].t = "list"
                  /\ resp.body.items[c].items # <<>>
                  /\ resp.body.items[c].items[1].t = "dict"
                  /\ \E k \in 1..Len(resp.body.items[c].items[1].keys) :
                        /\ resp.body.items[c].items[1].keys[k] = "text"
                        /\ resp.body.items[c].items[1].items[k].t = "str"

\* C6: when the request succeeds but the payload is empty or malformed,
\* generate_roadmap returns the string "No roadmap generated." rather than failing.
C6_MalformedPayloadGivesSentinel ==
    (pc = "returned" /\ response.kind = "ok" /\ ~WellFormed(variant, response)) =>
        roadmap = Returned(JStr(NoRoadmap))

RunOver == pc \in {"done", "idle", "exited"}

Projects == SelectSeq(shown, LAMBDA e : e.kind = "project")

\* C7: for a non-empty recommendation set, roadmap generation is attempted exactly
\* once for every recommended project, in recommendation order, whatever the
\* outcome of the requests before it; each project's fields are displayed before
\* its roadmap, and a failed roadmap never aborts the flow.
C7_EveryProjectGetsOneRoadmapAttempt ==
    (RunOver /\ recommendations.raised = "none" /\ recommendations.value # <<>>) =>
        /\ posts = Len(recommendations.value)
        /\ [k \in 1..Len(Projects) |-> Projects[k].row] = recommendations.value
        /\ \A i \in 1..Len(shown) :
              shown[i].kind = "roadmap" => (i > 1 /\ shown[i - 1] = Project(data, shown[i].row))
        /\ exit_code # "1"

\* C8: only a configuration error at startup terminates the process: after a
\* validation error the process keeps running and the preferences can be
\* submitted again; the console variant exits with status 0 on every run that got
\* past configuration loading.
C8_OnlyConfigErrorTerminates ==
    /\ exit_code = "1" => ~config_ok
    /\ validated.raised = "ValueError" => exit_code = "running"
    /\ (variant = "console" /\ config_ok /\ exit_code # "running") => exit_code = "0"

\* C9: load_project_data never raises and returns an empty table on a load
\* failure; main, given an empty table, shows the single failed-to-load notice and
\* stops: no preference prompt, no selection and no roadmap request in that run.
C9_FailedLoadStopsTheRun ==
    (config_ok /\ pc \notin {"config", "load"}) =>
        /\ csv_file.state # "ok" => (data = EmptyTable /\ exit_code # "1")
        /\ csv_file.state = "ok" => data = csv_file.table
        /\ empty(data) =>
              /\ shown = <<Notice("failed to load")>>
              /\ prompts = 0
              /\ selects = 0
              /\ posts = 0
              /\ validated = NotCalled
              /\ pc \in {"done", "idle"}

\* a run whose CSV file is missing has ended on the notice
C9_Witness ==
    /\ csv_file = Missing
    /\ pc \in {"done", "idle"}
    /\ shown = <<Notice("failed to load")>>

\* C10: a recommended project whose description is absent does not crash the
\* consumers and is treated as the empty string: the description displayed and
\* the description embedded in the prompt are both empty text.
C10_AbsentDescriptionIsEmptyText ==
    /\ \A i \in 1..Len(shown) :
          (shown[i].kind = "project" /\ data[shown[i].row].Description.absent)
              => shown[i].texts[2] = <<>>
    /\ (pc = "display" /\ row_i > 1 /\ data[recommendations.value[row_i - 1]].Description.absent)
          => prompt[2] = <<>>

====
